---- MODULE Spec2Model ----
(***************************************************************************)
(* Model of the export pipeline of backend/server.py (DiaporamaMp4):       *)
(* the project documents of db.projects, the upload directories, the       *)
(* request handlers and the export_video background tasks.                 *)
(*                                                                         *)
(* Granularity.  All coroutines run on one asyncio event loop, so the code *)
(* between two awaits is atomic.  An action of a task is the code that     *)
(* follows one await together with the effect of the next awaited          *)
(* database or process operation.  The request handlers are short read /   *)
(* write pairs on the project document and are modelled as one step each.  *)
(*                                                                         *)
(* Numbers.  A duration is held in hundredths of a second (2.0 s = 200),   *)
(* export_progress as a reduced fraction <<numerator, denominator>>.       *)
(* all_frames is held run-length encoded: one block <<photo id, n>> per    *)
(* photo that was rendered, standing for its n consecutive frames.         *)
(***************************************************************************)
EXTENDS Integers, Sequences, FiniteSets, TLC

\* ------------------------------------------------------------------ bounds
MaxRuns == 2        \* export_video tasks that can be in flight at once
MaxUploads == 2     \* photo files uploaded over a behaviour
MaxPhotos == 4      \* photo files uploaded where uploads and deletions alternate
MaxExports == 2     \* start_export calls accepted over a behaviour
RaceUploads == 1    \* photo files uploaded over a behaviour of RaceSpec
SeqExports == 1     \* start_export calls accepted over a behaviour of SeqSpec
MaxSide == 12       \* the widest and the tallest image, in pixels
MaxFrames == 4      \* the frames of one photo's animation

ProjectIds == {"p1"}                 \* ids create_project can hand out
RequestIds == ProjectIds \cup {"px"} \* ids a request can name; "px" never exists
Runs == 1..MaxRuns
Durations == {0, 5}                  \* 0 s and 0.05 s; an upload sets 2.0 s
FileKinds == {"image", "other"}      \* by extension: accepted or not
MusicNames == {"m1"}                 \* file names upload_music can hand out
EditWidths == {8, 9, 10, 11, 12}      \* of images 10 high: ratios 0.8 to 1.2
EditFormats == {"horizontal", "vertical"} \* settings.format in EditSpec
EditDurations == {5}                 \* 0.05 s
Tempos == {0, 100, 120}              \* BPM; 0 when beat_track finds no beat
Multipliers == {10, 15}              \* global_rhythm_multiplier 1.0 and 1.5
Tiers == {"720p", "1080p", "4k"}     \* settings.resolution: "4k" is not known
Formats == {"horizontal", "vertical", "square"} \* "square" is not known

\* ------------------------------------------------------- program constants
fps == 30
DefaultDuration == 200
DefaultMultiplier == 10   \* global_rhythm_multiplier 1.0, in tenths
DefaultTempo == 120       \* the tempo analyze_audio falls back to, in BPM

None == "None"

VARIABLES
    db,          \* db.projects: the documents, by project id
    photos_dir,  \* PHOTOS_DIR: photo ids whose source file exists
    music_dir,   \* MUSIC_DIR: music file names that exist
    export_dir,  \* EXPORT_DIR: file name -> "absent", "empty", "silent", "muxed"
    preview_dir, \* PREVIEW_DIR: the preview files that exist
    tasks,       \* the export_video background tasks, one record per slot
    uploads,     \* photo ids handed out so far (uuid4 is fresh each time)
    exports,     \* start_export calls accepted so far
    response,    \* the status code of the last HTTP response
    returned,    \* the last call of a helper function: its arguments and value
    pending      \* the handler suspended between its find_one and its update_one

vars == <<db, photos_dir, music_dir, export_dir, preview_dir, tasks, uploads,
          exports, response, returned, pending>>

\* ------------------------------------------------------------- arithmetic
RECURSIVE GCD(_, _)
GCD(a, b) == IF b = 0 THEN a ELSE GCD(b, a % b)

Frac(n, d) == LET g == GCD(n, d) IN <<n \div g, d \div g>>

FracLess(x, y) == x[1] * y[2] < y[1] * x[2]

Zero == Frac(0, 1)
Hundred == Frac(100, 1)

\* progress_percent = (photo_idx + 1) / total_photos * 80, photo_idx 0-based
ProgressPercent(photo_idx, total_photos) == Frac((photo_idx + 1) * 80, total_photos)

\* photo_frames = int(photo.duration * fps)
PhotoFrames(duration) == (duration * fps) \div 100

\* max(a, b), min(a, b)
max(a, b) == IF a >= b THEN a ELSE b
min(a, b) == IF a <= b THEN a ELSE b

\* int(x) of the quotient n / d of two non-negative numbers
int(n, d) == n \div d

\* progress taken over the number of frames, not over the last frame's number
FrameProgress_Whole(frame_num, photo_frames) == Frac(frame_num, max(photo_frames, 1))

\* progress = frame_num / max(photo_frames - 1, 1)
FrameProgress(frame_num, photo_frames) == Frac(frame_num, max(photo_frames - 1, 1))

\* a zoom that widens the window: 1.0 - 0.05 * progress
ZoomFactor_Out(progress) == Frac(20 * progress[2] - progress[1], 20 * progress[2])

\* zoom_factor = 1.0 + 0.05 * progress
ZoomFactor(progress) == Frac(20 * progress[2] + progress[1], 20 * progress[2])

\* The crop box of one frame of the Ken Burns effect:
\* (left, top, left + new_width, top + new_height)
CropBox(target_size, progress) ==
    LET zoom_factor == ZoomFactor(progress)
        new_width == int(target_size[1] * zoom_factor[2], zoom_factor[1])
        new_height == int(target_size[2] * zoom_factor[2], zoom_factor[1])
        pan_x == int(10 * progress[1], progress[2])
        pan_y == int(5 * progress[1], progress[2])
        left == max(0, min((target_size[1] - new_width) \div 2 + pan_x,
                           target_size[1] - new_width))
        top == max(0, min((target_size[2] - new_height) \div 2 + pan_y,
                          target_size[2] - new_height))
    IN  <<left, top, left + new_width, top + new_height>>

\* The frames of one photo: for frame_num in range(photo_frames)
KenBurns(target_size, photo_frames) ==
    [i \in 1..photo_frames |->
        LET progress == FrameProgress(i - 1, photo_frames)
        IN  [progress |-> progress,
             zoom_factor |-> ZoomFactor(progress),
             box |-> CropBox(target_size, progress)]]

\* create_blurred_background: the size the image is scaled to and the box
\* cropped out of it.  img_ratio > target_ratio is img.width / img.height >
\* target_size[0] / target_size[1].
create_blurred_background(img, target_size) ==
    LET wider == img[1] * target_size[2] > target_size[1] * img[2]
        new_width == IF wider THEN int(target_size[2] * img[1], img[2])
                     ELSE target_size[1]
        new_height == IF wider THEN target_size[2]
                      ELSE int(target_size[1] * img[2], img[1])
        left == (new_width - target_size[1]) \div 2
        top == (new_height - target_size[2]) \div 2
    IN  [size |-> <<new_width, new_height>>,
         box |-> <<left, top, left + target_size[1], top + target_size[2]>>]

\* fit_image_to_frame: the size the image is resized to
fit_image_to_frame(img, target_size) ==
    LET wider == img[1] * target_size[2] > target_size[1] * img[2]
    IN  IF wider
        THEN <<target_size[1], int(target_size[1] * img[2], img[1])>>
        ELSE <<int(target_size[2] * img[1], img[2]), target_size[2]>>

\* create_frame_with_background for an image of size img that can be read:
\* the background, the fitted image and the place it is pasted at; resize
\* raises ValueError for a size with a side of 0.
create_frame_with_background(img, target_size) ==
    LET bg == create_blurred_background(img, target_size)
        fitted == fit_image_to_frame(img, target_size)
        x == (target_size[1] - fitted[1]) \div 2
        y == (target_size[2] - fitted[2]) \div 2
    IN  [raised |-> IF fitted[1] = 0 \/ fitted[2] = 0 \/ bg.size[1] = 0 \/ bg.size[2] = 0
                    THEN "ValueError" ELSE None,
         bg |-> bg, fitted |-> fitted, at |-> <<x, y>>]

\* ------------------------------------------------------------ file names
OutputName(project_id) == project_id \o ".mp4"
AudioName(project_id) == project_id \o "_audio.mp4"
ExportNames == {OutputName(p) : p \in ProjectIds} \cup {AudioName(p) : p \in ProjectIds}

Usable(name) == export_dir[name] \in {"silent", "muxed"}

\* ------------------------------------------------------------- helpers
\* get_orientation with both limits counted to the outer classes
get_orientation_Inclusive(width, height) ==
    IF 10 * width >= 11 * height THEN "landscape"
    ELSE IF 10 * width <= 9 * height THEN "portrait"
    ELSE "square"

\* ratio = width / height; ratio > 1.1, ratio < 0.9 (the quotient of two
\* small integers compares with 1.1 and 0.9 as the exact fraction does)
get_orientation(width, height) ==
    IF 10 * width > 11 * height THEN "landscape"
    ELSE IF 10 * width < 9 * height THEN "portrait"
    ELSE "square"

resolutions ==
    [t \in {"720p", "1080p"} |->
        IF t = "720p"
        THEN [f \in {"horizontal", "vertical"} |->
                 IF f = "horizontal" THEN <<1280, 720>> ELSE <<720, 1280>>]
        ELSE [f \in {"horizontal", "vertical"} |->
                 IF f = "horizontal" THEN <<1920, 1080>> ELSE <<1080, 1920>>]]

\* dict.get(key, default)
Get(dict, key, default) == IF key \in DOMAIN dict THEN dict[key] ELSE default

get_resolution(resolution, format) ==
    Get(Get(resolutions, resolution, resolutions["1080p"]), format, <<1920, 1080>>)

\* target_sizes.get(target_format, (960, 540))
PreviewSize(target_format) ==
    IF target_format = "vertical" THEN <<540, 960>> ELSE <<960, 540>>

\* f"{photo_id}_preview_{format}.jpg"
PreviewName(photo_id, format) == <<photo_id, format>>

\* create_preview_with_blur: the preview directory after the call, which
\* saves the preview over any file of that name, or, the image not being
\* readable, logs the error and saves nothing.
create_preview_with_blur(dir, readable, preview_path, target_format) ==
    IF readable
    THEN {f \in dir : f[1] # preview_path} \cup {<<preview_path, PreviewSize(target_format)>>}
    ELSE dir

\* ------------------------------------------------------------- documents
NoMusic == [filename |-> None, tempo |-> 0]
MusicInfo(filename, tempo) == [filename |-> filename, tempo |-> tempo]

ProjectSettings == [format |-> "horizontal",
                    global_rhythm_multiplier |-> DefaultMultiplier]

Project == [photos |-> <<>>, music |-> NoMusic, settings |-> ProjectSettings,
            export_status |-> "idle", export_progress |-> Zero,
            export_file |-> None]

Photo(id, order, width, height, format) ==
    [id |-> id, filename |-> id, width |-> width, height |-> height,
     orientation |-> get_orientation(width, height),
     duration |-> DefaultDuration, order |-> order,
     preview |-> PreviewName(id, format)]

\* An uploaded file: "other" has an extension upload_photos passes over.
File(kind, width, height) == [kind |-> kind, width |-> width, height |-> height]

\* The locals of one export_video task.  pc is the await it is suspended at;
\* written is what iio.imwrite left, mux what became of the audio step, e the
\* exception the except clause caught, wrote the terminal status of the
\* task's last update_one.
IdleTask == [pc |-> "free", project_id |-> None, photos |-> <<>>, music |-> NoMusic,
             total_photos |-> 0, photo_idx |-> 0, all_frames |-> <<>>,
             written |-> None, mux |-> None, e |-> None, wrote |-> None]

\* ---------------------------------------------------------------- init
NoCall == [fn |-> None, args |-> <<>>, value |-> None]

\* No handler is suspended.  photos is the list the handler will $set,
\* fields the settings it will $set after that.
NoRequest == [op |-> None, project_id |-> None, photos |-> <<>>, fields |-> <<>>]

Init ==
    /\ db = [p \in {} |-> Project]
    /\ photos_dir = {}
    /\ music_dir = {}
    /\ export_dir = [n \in ExportNames |-> "absent"]
    /\ tasks = [r \in Runs |-> IdleTask]
    /\ uploads = 0
    /\ exports = 0
    /\ response = 0
    /\ preview_dir = {}
    /\ returned = NoCall
    /\ pending = NoRequest

Exists(project_id) == project_id \in DOMAIN db

Respond(op, code) == response' = code

NotFound(op) ==
    /\ Respond(op, 404)
    /\ UNCHANGED <<db, photos_dir, music_dir, export_dir, preview_dir, tasks,
                   uploads, exports, returned, pending>>

\* ------------------------------------------------------------- sorting
\* sorted(photos, key=lambda p: p.order): Python's sort is stable
RECURSIVE InsertByOrder(_, _)
InsertByOrder(s, p) ==
    IF s = <<>> THEN <<p>>
    ELSE IF s[Len(s)].order <= p.order THEN Append(s, p)
    ELSE Append(InsertByOrder(SubSeq(s, 1, Len(s) - 1), p), s[Len(s)])

RECURSIVE SortedByOrder(_)
SortedByOrder(s) ==
    IF s = <<>> THEN <<>>
    ELSE InsertByOrder(SortedByOrder(SubSeq(s, 1, Len(s) - 1)), s[Len(s)])

\* ------------------------------------------------------------ handlers
\* POST /projects
CreateProject ==
    \E id \in ProjectIds :
        /\ id \notin DOMAIN db
        /\ db' = [p \in DOMAIN db \cup {id} |-> IF p = id THEN Project ELSE db[p]]
        /\ Respond("create_project", 200)
        /\ UNCHANGED <<photos_dir, music_dir, export_dir, preview_dir, tasks,
                       uploads, exports, returned, pending>>

\* The preview directory after create_preview_with_blur has been called for
\* each of photos in turn, those with an id in readable being saved.
RECURSIVE Previews(_, _, _, _)
Previews(dir, photos, readable, format) ==
    IF photos = <<>> THEN dir
    ELSE Previews(create_preview_with_blur(dir, Head(photos).id \in readable,
                                           PreviewName(Head(photos).id, format),
                                           format),
                  Tail(photos), readable, format)

\* POST /projects/{project_id}/photos
UploadPhotos(project_id, files) ==
    IF ~Exists(project_id) THEN NotFound("upload_photos")
    ELSE
        LET accepted == SelectSeq(files, LAMBDA f : f.kind # "other")
            n == Len(accepted)
            current_order == Len(db[project_id].photos)
            current_format == db[project_id].settings.format
            uploaded_photos ==
                [i \in 1..n |-> Photo(uploads + i, current_order + i - 1,
                                      accepted[i].width, accepted[i].height,
                                      current_format)]
            ids == {uploads + i : i \in 1..n}
        IN  /\ uploads + n <= MaxPhotos
            /\ photos_dir' = photos_dir \cup ids
            /\ preview_dir' = Previews(preview_dir, uploaded_photos,
                                       {uploads + i : i \in {k \in 1..n :
                                            accepted[k].kind = "image"}},
                                       current_format)
            /\ db' = [db EXCEPT ![project_id].photos = @ \o uploaded_photos]
            /\ uploads' = uploads + n
            /\ Respond("upload_photos", 200)
            /\ UNCHANGED <<music_dir, export_dir, tasks, exports, returned, pending>>

\* POST /projects/{project_id}/music
UploadMusic(project_id, ext, tempo) ==
    IF ~Exists(project_id) THEN NotFound("upload_music")
    ELSE IF ext # ".mp3" THEN
        /\ Respond("upload_music", 400)
        /\ UNCHANGED <<db, photos_dir, music_dir, export_dir, preview_dir,
                       tasks, uploads, exports, returned, pending>>
    ELSE
        \E filename \in MusicNames \ music_dir :
            /\ music_dir' = music_dir \cup {filename}
            /\ db' = [db EXCEPT ![project_id].music = MusicInfo(filename, tempo)]
            /\ Respond("upload_music", 200)
            /\ UNCHANGED <<photos_dir, export_dir, preview_dir, tasks,
                           uploads, exports, returned, pending>>

\* PUT /projects/{project_id}/photos/duration
UpdatePhotoDuration(project_id, photo_id, duration) ==
    /\ IF Exists(project_id)
       THEN db' = [db EXCEPT ![project_id].photos =
                      [i \in DOMAIN @ |->
                          IF @[i].id = photo_id
                          THEN [@[i] EXCEPT !.duration = duration] ELSE @[i]]]
       ELSE UNCHANGED db
    /\ Respond("update_photo_duration", 200)
    /\ UNCHANGED <<photos_dir, music_dir, export_dir, preview_dir, tasks,
                   uploads, exports, returned, pending>>

\* The body of a handler's response
Body(op, value) == returned' = [fn |-> op, args |-> <<>>, value |-> value]

\* beat_interval = 60.0 / tempo * multiplier, in hundredths of a second
\* (tempo in BPM, multiplier in tenths)
BeatInterval(tempo, multiplier) == (6000 * multiplier) \div (tempo * 10)

\* POST /projects/{project_id}/sync-to-beats
SyncPhotosToBeats(project_id) ==
    IF ~Exists(project_id) THEN NotFound("sync_photos_to_beats")
    ELSE
        LET project == db[project_id]
            photos == SortedByOrder(project.photos)
            multiplier == project.settings.global_rhythm_multiplier
            unchanged == UNCHANGED <<db, photos_dir, music_dir, export_dir,
                                     preview_dir, tasks, uploads, exports,
                                     pending>>
        IN  IF project.music = NoMusic THEN
                Respond("sync_photos_to_beats", 400) /\ unchanged /\ UNCHANGED returned
            ELSE IF Len(photos) = 0 THEN
                /\ Respond("sync_photos_to_beats", 200)
                /\ Body("sync_photos_to_beats", [synced |-> FALSE])
                /\ unchanged
            ELSE IF project.music.tempo = 0 THEN
                \* ZeroDivisionError
                Respond("sync_photos_to_beats", 500) /\ unchanged /\ UNCHANGED returned
            ELSE
                LET beat_interval == BeatInterval(project.music.tempo, multiplier)
                IN  /\ db' = [db EXCEPT ![project_id].photos =
                                 [i \in 1..Len(photos) |->
                                     [photos[i] EXCEPT !.duration = beat_interval]]]
                    /\ Respond("sync_photos_to_beats", 200)
                    /\ Body("sync_photos_to_beats",
                            [synced |-> TRUE, beat_interval |-> beat_interval])
                    /\ UNCHANGED <<photos_dir, music_dir, export_dir,
                                   preview_dir, tasks, uploads, exports,
                                   pending>>

\* an order map whose places are counted from 1
OrderMap_FromOne(photo_ids, pid) ==
    CHOOSE i \in 1..Len(photo_ids) :
        /\ photo_ids[i] = pid
        /\ \A j \in (i + 1)..Len(photo_ids) : photo_ids[j] # pid

\* order_map = {pid: idx for idx, pid in enumerate(photo_ids)}: the last
\* place of pid in the list, counted from 0
OrderMap(photo_ids, pid) ==
    (CHOOSE i \in 1..Len(photo_ids) :
        /\ photo_ids[i] = pid
        /\ \A j \in (i + 1)..Len(photo_ids) : photo_ids[j] # pid) - 1

\* PUT /projects/{project_id}/photos/reorder
ReorderPhotos(project_id, photo_ids) ==
    IF ~Exists(project_id) THEN NotFound("reorder_photos")
    ELSE
        LET photos == db[project_id].photos
            in_map(pid) == \E i \in 1..Len(photo_ids) : photo_ids[i] = pid
            renumbered ==
                [i \in 1..Len(photos) |->
                    IF in_map(photos[i].id)
                    THEN [photos[i] EXCEPT !.order = OrderMap(photo_ids, photos[i].id)]
                    ELSE photos[i]]
        IN  /\ db' = [db EXCEPT ![project_id].photos = SortedByOrder(renumbered)]
            /\ Respond("reorder_photos", 200)
            /\ UNCHANGED <<photos_dir, music_dir, export_dir, preview_dir,
                           tasks, uploads, exports, returned, pending>>

\* PUT /projects/{project_id}/photos/duration/all
UpdateAllPhotosDuration(project_id, duration) ==
    IF ~Exists(project_id) THEN NotFound("update_all_photos_duration")
    ELSE
        /\ db' = [db EXCEPT ![project_id].photos =
                     [i \in DOMAIN @ |-> [@[i] EXCEPT !.duration = duration]]]
        /\ Respond("update_all_photos_duration", 200)
        /\ UNCHANGED <<photos_dir, music_dir, export_dir, preview_dir, tasks,
                       uploads, exports, returned, pending>>

\* PUT /projects/{project_id}/settings.  update_data holds the fields the
\* request gives; readable are the photos whose image can be read.
UpdateSettings(project_id, update_data, readable) ==
    /\ IF ~Exists(project_id) \/ DOMAIN update_data = {}
       THEN UNCHANGED <<db, preview_dir>>
       ELSE
            LET project == db[project_id]
                regenerate == "format" \in DOMAIN update_data
                new_format == update_data["format"]
                present == SelectSeq(project.photos,
                                     LAMBDA photo : photo.filename \in photos_dir)
                updated_photos ==
                    [i \in 1..Len(project.photos) |->
                        IF project.photos[i].filename \in photos_dir
                        THEN [project.photos[i] EXCEPT
                                !.preview = PreviewName(project.photos[i].id, new_format)]
                        ELSE project.photos[i]]
            IN  /\ preview_dir' =
                      IF regenerate
                      THEN Previews(preview_dir, present, readable, new_format)
                      ELSE preview_dir
                /\ db' = [db EXCEPT
                            ![project_id].photos =
                                IF regenerate THEN updated_photos ELSE @,
                            ![project_id].settings =
                                [k \in DOMAIN @ |->
                                    IF k \in DOMAIN update_data
                                    THEN update_data[k] ELSE @[k]]]
    /\ Respond("update_settings", 200)
    /\ UNCHANGED <<photos_dir, music_dir, export_dir, tasks, uploads,
                   exports, returned, pending>>

\* DELETE /projects/{project_id}/photos/{photo_id}
DeletePhoto(project_id, photo_id) ==
    IF ~Exists(project_id) THEN NotFound("delete_photo")
    ELSE
        LET photos == db[project_id].photos
            found == \E i \in DOMAIN photos : photos[i].id = photo_id
        IN  /\ IF found
               THEN /\ photos_dir' = photos_dir \ {photo_id}
                    /\ preview_dir' =
                          {f \in preview_dir :
                              \A i \in DOMAIN photos :
                                  photos[i].id = photo_id => f[1] # photos[i].preview}
                    /\ db' = [db EXCEPT ![project_id].photos =
                                 SelectSeq(@, LAMBDA p : p.id # photo_id)]
               ELSE UNCHANGED <<photos_dir, preview_dir, db>>
            /\ Respond("delete_photo", 200)
            /\ UNCHANGED <<music_dir, export_dir, tasks, uploads, exports,
                           returned, pending>>

\* ------------------------------------------- handlers, await by await
\* The handlers that read the photo list with find_one and write a whole
\* list back with update_one $set, taken one await at a time: the find_one
\* with the code up to the update_one, then each update_one.  Other
\* handlers run in between.

\* sync_photos_to_beats up to its update_one, where it has one to make
FindSyncPhotosToBeats(project_id) ==
    /\ pending = NoRequest
    /\ Exists(project_id)
    /\ db[project_id].music # NoMusic
    /\ Len(db[project_id].photos) > 0
    /\ db[project_id].music.tempo # 0
    /\ LET project == db[project_id]
           photos == SortedByOrder(project.photos)
           beat_interval == BeatInterval(project.music.tempo,
                                         project.settings.global_rhythm_multiplier)
       IN  pending' = [op |-> "sync_photos_to_beats", project_id |-> project_id,
                       photos |-> [i \in 1..Len(photos) |->
                                     [photos[i] EXCEPT !.duration = beat_interval]],
                       fields |-> <<>>]
    /\ UNCHANGED <<db, photos_dir, music_dir, export_dir, preview_dir, tasks,
                   uploads, exports, response, returned>>

\* reorder_photos up to its update_one
FindReorderPhotos(project_id, photo_ids) ==
    /\ pending = NoRequest
    /\ Exists(project_id)
    /\ LET photos == db[project_id].photos
           in_map(pid) == \E i \in 1..Len(photo_ids) : photo_ids[i] = pid
           renumbered ==
               [i \in 1..Len(photos) |->
                   IF in_map(photos[i].id)
                   THEN [photos[i] EXCEPT !.order = OrderMap(photo_ids, photos[i].id)]
                   ELSE photos[i]]
       IN  pending' = [op |-> "reorder_photos", project_id |-> project_id,
                       photos |-> SortedByOrder(renumbered), fields |-> <<>>]
    /\ UNCHANGED <<db, photos_dir, music_dir, export_dir, preview_dir, tasks,
                   uploads, exports, response, returned>>

\* update_all_photos_duration up to its update_one
FindUpdateAllPhotosDuration(project_id, duration) ==
    /\ pending = NoRequest
    /\ Exists(project_id)
    /\ pending' = [op |-> "update_all_photos_duration", project_id |-> project_id,
                   photos |-> [i \in DOMAIN db[project_id].photos |->
                                 [db[project_id].photos[i] EXCEPT !.duration = duration]],
                   fields |-> <<>>]
    /\ UNCHANGED <<db, photos_dir, music_dir, export_dir, preview_dir, tasks,
                   uploads, exports, response, returned>>

\* update_settings with a format, up to its first update_one: the previews
\* are generated before it
FindUpdateSettings(project_id, update_data, readable) ==
    /\ pending = NoRequest
    /\ Exists(project_id)
    /\ "format" \in DOMAIN update_data
    /\ LET project == db[project_id]
           new_format == update_data["format"]
           present == SelectSeq(project.photos,
                                LAMBDA photo : photo.filename \in photos_dir)
           updated_photos ==
               [i \in 1..Len(project.photos) |->
                   IF project.photos[i].filename \in photos_dir
                   THEN [project.photos[i] EXCEPT
                           !.preview = PreviewName(project.photos[i].id, new_format)]
                   ELSE project.photos[i]]
       IN  /\ preview_dir' = Previews(preview_dir, present, readable, new_format)
           /\ pending' = [op |-> "update_settings", project_id |-> project_id,
                           photos |-> updated_photos, fields |-> update_data]
    /\ UNCHANGED <<db, photos_dir, music_dir, export_dir, tasks, uploads,
                   exports, response, returned>>

\* update_one {"$set": {"photos": ...}} of the suspended handler, and its
\* return unless another update_one follows
UpdateOnePhotos ==
    /\ pending.op \notin {None, "update_settings_fields"}
    /\ db' = [db EXCEPT ![pending.project_id].photos = pending.photos]
    /\ IF pending.op = "update_settings"
       THEN /\ pending' = [pending EXCEPT !.op = "update_settings_fields",
                                          !.photos = <<>>]
            /\ UNCHANGED <<response, returned>>
       ELSE /\ pending' = NoRequest
            /\ Respond(pending.op, 200)
            /\ IF pending.op = "sync_photos_to_beats"
               THEN Body(pending.op, [synced |-> TRUE,
                                      beat_interval |-> pending.photos[1].duration])
               ELSE UNCHANGED returned
    /\ UNCHANGED <<photos_dir, music_dir, export_dir, preview_dir, tasks,
                   uploads, exports>>

\* update_one {"$set": update_fields} of update_settings, and its return
UpdateOneSettings ==
    /\ pending.op = "update_settings_fields"
    /\ db' = [db EXCEPT ![pending.project_id].settings =
                 [k \in DOMAIN @ |->
                     IF k \in DOMAIN pending.fields
                     THEN pending.fields[k] ELSE @[k]]]
    /\ pending' = NoRequest
    /\ Respond("update_settings", 200)
    /\ UNCHANGED <<photos_dir, music_dir, export_dir, preview_dir, tasks,
                   uploads, exports, returned>>

\* start_export that turns a second export away while one is processing
StartExport_Exclusive(project_id) ==
    IF ~Exists(project_id) THEN NotFound("start_export")
    ELSE IF db[project_id].export_status = "processing" THEN
        /\ Respond("start_export", 409)
        /\ UNCHANGED <<db, photos_dir, music_dir, export_dir, preview_dir,
                       tasks, uploads, exports, returned, pending>>
    ELSE
        /\ exports < MaxExports
        /\ \E r \in Runs :
            /\ tasks[r].pc \in {"free", "done"}
            /\ \A q \in Runs : q < r => tasks[q].pc \notin {"free", "done"}
            /\ tasks' = [tasks EXCEPT ![r] =
                            [IdleTask EXCEPT !.pc = "start", !.project_id = project_id]]
        /\ db' = [db EXCEPT ![project_id].export_status = "processing",
                            ![project_id].export_progress = Zero,
                            ![project_id].export_file = None]
        /\ exports' = exports + 1
        /\ Respond("start_export", 200)
        /\ UNCHANGED <<photos_dir, music_dir, export_dir, preview_dir,
                       uploads, returned, pending>>

\* start_export that leaves the old export_file in place
StartExport_KeepsFile(project_id) ==
    IF ~Exists(project_id) THEN NotFound("start_export")
    ELSE
        /\ exports < MaxExports
        /\ \E r \in Runs :
            /\ tasks[r].pc \in {"free", "done"}
            /\ \A q \in Runs : q < r => tasks[q].pc \notin {"free", "done"}
            /\ tasks' = [tasks EXCEPT ![r] =
                            [IdleTask EXCEPT !.pc = "start", !.project_id = project_id]]
        /\ db' = [db EXCEPT ![project_id].export_status = "processing",
                            ![project_id].export_progress = Zero]
        /\ exports' = exports + 1
        /\ Respond("start_export", 200)
        /\ UNCHANGED <<photos_dir, music_dir, export_dir, preview_dir,
                       uploads, returned, pending>>

\* POST /projects/{project_id}/export
StartExport(project_id) ==
    IF ~Exists(project_id) THEN NotFound("start_export")
    ELSE
        /\ exports < MaxExports
        /\ \E r \in Runs :
            /\ tasks[r].pc \in {"free", "done"}
            /\ \A q \in Runs : q < r => tasks[q].pc \notin {"free", "done"}
            /\ tasks' = [tasks EXCEPT ![r] =
                            [IdleTask EXCEPT !.pc = "start", !.project_id = project_id]]
        /\ db' = [db EXCEPT ![project_id].export_status = "processing",
                            ![project_id].export_progress = Zero,
                            ![project_id].export_file = None]
        /\ exports' = exports + 1
        /\ Respond("start_export", 200)
        /\ UNCHANGED <<photos_dir, music_dir, export_dir, preview_dir,
                       uploads, returned, pending>>

\* The status code of download_export: 200 stands for the FileResponse.
DownloadAnswer(project_id) ==
    IF ~Exists(project_id) THEN 404
    ELSE IF db[project_id].export_file = None THEN 404
    ELSE IF export_dir[db[project_id].export_file] = "absent" THEN 404
    ELSE 200

\* GET /projects/{project_id}/export/download
DownloadExport(project_id) ==
    /\ Respond("download_export", DownloadAnswer(project_id))
    /\ UNCHANGED <<db, photos_dir, music_dir, export_dir, preview_dir, tasks,
                   uploads, exports, returned, pending>>

\* -------------------------------------------------------- export_video
InFlight(r) == tasks[r].pc \notin {"free", "done"}

\* Between unlink and rename the task does not await: the event loop runs no
\* other coroutine then. Only processes outside the loop (ffmpeg) go on.
Unlinked == \E r \in Runs : tasks[r].pc = "rename"

\* A loop that takes the next photo whether its file exists or not
NextPresent_NoSkip(photos, photo_idx, dir) ==
    IF photo_idx >= Len(photos) THEN Len(photos) + 1 ELSE photo_idx + 1

\* The photo loop's `if not photo_path.exists(): continue`: the position in
\* the sorted list of the first photo after photo_idx whose file exists, or
\* Len(photos) + 1 when the loop runs out.
RECURSIVE NextPresent(_, _, _)
NextPresent(photos, photo_idx, dir) ==
    IF photo_idx >= Len(photos) THEN Len(photos) + 1
    ELSE IF photos[photo_idx + 1].filename \in dir THEN photo_idx + 1
    ELSE NextPresent(photos, photo_idx + 1, dir)

RECURSIVE FrameCount(_)
FrameCount(all_frames) ==
    IF all_frames = <<>> THEN 0
    ELSE all_frames[Len(all_frames)][2]
         + FrameCount(SubSeq(all_frames, 1, Len(all_frames) - 1))

\* The locals the rest of the task no longer reads are dropped once the photo
\* loop is left: project.photos, project.music and the loop index.
PastLoop(t, pc) == [t EXCEPT !.pc = pc, !.photos = <<>>, !.music = NoMusic,
                             !.photo_idx = 0]

\* An exception reaches the except clause as e.
Raise(r, e) == [tasks EXCEPT ![r] = [PastLoop(@, "except") EXCEPT !.e = e]]

\* The task has returned, its last update_one having set the status wrote.
Done(t, wrote) == [PastLoop(t, "done") EXCEPT !.wrote = wrote]

\* find_one, which answers or raises
RunStart(r) ==
    /\ ~Unlinked
    /\ tasks[r].pc = "start"
    /\ \E found \in BOOLEAN :
        tasks' =
            IF ~found THEN Raise(r, "load")
            ELSE IF ~Exists(tasks[r].project_id)
                 THEN [tasks EXCEPT ![r] = Done(@, None)]
            ELSE [tasks EXCEPT ![r].pc = "loaded",
                               ![r].photos = db[tasks[r].project_id].photos,
                               ![r].music = db[tasks[r].project_id].music]
    /\ UNCHANGED <<db, photos_dir, music_dir, export_dir, preview_dir,
                   uploads, exports, response, returned, pending>>

\* Project(**project_data); update_one: processing, 0.0
RunMarkProcessing(r) ==
    /\ ~Unlinked
    /\ tasks[r].pc = "loaded"
    /\ db' = [db EXCEPT ![tasks[r].project_id].export_status = "processing",
                        ![tasks[r].project_id].export_progress = Zero]
    /\ tasks' = [tasks EXCEPT ![r].total_photos = Len(tasks[r].photos),
                              ![r].pc = IF Len(tasks[r].photos) = 0
                                        THEN "no_photos" ELSE "loop"]
    /\ UNCHANGED <<photos_dir, music_dir, export_dir, preview_dir, uploads,
                   exports, response, returned, pending>>

\* A zero-photo branch that returns without setting the status
RunNoPhotos_Returns(r) ==
    /\ ~Unlinked
    /\ tasks[r].pc = "no_photos"
    /\ tasks' = [tasks EXCEPT ![r] = Done(@, None)]
    /\ UNCHANGED <<db, photos_dir, music_dir, export_dir, preview_dir,
                   uploads, exports, response, returned, pending>>

\* total_photos == 0: update_one: error; return
RunNoPhotos(r) ==
    /\ ~Unlinked
    /\ tasks[r].pc = "no_photos"
    /\ db' = [db EXCEPT ![tasks[r].project_id].export_status = "error"]
    /\ tasks' = [tasks EXCEPT ![r] = Done(@, "error")]
    /\ UNCHANGED <<photos_dir, music_dir, export_dir, preview_dir, uploads,
                   exports, response, returned, pending>>

\* One iteration of the photo loop that reaches its update_one (the missing
\* photos before it are passed over), or the exception that ends it.
RunPhoto(r) ==
    LET t == tasks[r]
        sorted == SortedByOrder(t.photos)
        j == NextPresent(sorted, t.photo_idx, photos_dir)
    IN  /\ ~Unlinked
        /\ t.pc = "loop"
        /\ j <= Len(sorted)
        /\ \E rendered \in {"frames", "decode", "memory"} :
                IF rendered # "frames"
                THEN /\ tasks' = Raise(r, rendered)
                     /\ UNCHANGED db
                ELSE /\ tasks' = [tasks EXCEPT
                            ![r].all_frames =
                                Append(@, <<sorted[j].id, PhotoFrames(sorted[j].duration)>>),
                            ![r].photo_idx = j]
                     /\ db' = [db EXCEPT ![t.project_id].export_progress =
                                  ProgressPercent(j - 1, t.total_photos)]
        /\ UNCHANGED <<photos_dir, music_dir, export_dir, preview_dir,
                       uploads, exports, response, returned, pending>>

\* The final check and update_one of a task that sees the export directory dir.
Finish(r, dir, written, mux) ==
    LET project_id == tasks[r].project_id
        ok == dir[OutputName(project_id)] \in {"silent", "muxed"}
    IN  /\ export_dir' = dir
        /\ db' = IF ok
                 THEN [db EXCEPT ![project_id].export_status = "completed",
                                 ![project_id].export_progress = Hundred,
                                 ![project_id].export_file = OutputName(project_id)]
                 ELSE [db EXCEPT ![project_id].export_status = "error"]
        /\ tasks' = [tasks EXCEPT ![r] =
                        Done([@ EXCEPT !.written = written, !.mux = mux],
                             IF ok THEN "completed" ELSE "error")]

\* What iio.imwrite can leave at output_file for all_frames, the file being
\* opened for writing anew: the silent video, an empty file, or an exception
\* before anything is written.
EncoderOutcomes(all_frames) ==
    IF FrameCount(all_frames) = 0 THEN {"empty", "raise"}
    ELSE {"silent", "empty", "raise"}

\* After the loop: iio.imwrite, then either create_subprocess_exec or, with
\* no music to add, the final check.
RunEncode(r) ==
    LET t == tasks[r]
        sorted == SortedByOrder(t.photos)
        output_file == OutputName(t.project_id)
    IN  /\ ~Unlinked
        /\ t.pc = "loop"
        /\ NextPresent(sorted, t.photo_idx, photos_dir) > Len(sorted)
        /\ \E written \in EncoderOutcomes(t.all_frames), launched \in BOOLEAN :
            LET dir == [export_dir EXCEPT ![output_file] = written]
            IN  IF written = "raise"
                THEN /\ tasks' = Raise(r, "encode")
                     /\ UNCHANGED <<db, export_dir>>
                ELSE IF t.music = NoMusic
                THEN Finish(r, dir, written, None)
                ELSE IF t.music.filename \notin music_dir
                THEN Finish(r, dir, written, "no_audio_file")
                ELSE /\ export_dir' = dir
                     /\ tasks' = IF launched
                                 THEN [tasks EXCEPT ![r] =
                                         [PastLoop(@, "communicate") EXCEPT !.written = written]]
                                 ELSE [Raise(r, "launch") EXCEPT ![r].written = written,
                                                                 ![r].mux = "not_launched"]
                     /\ UNCHANGED db
        /\ UNCHANGED <<photos_dir, music_dir, preview_dir, uploads, exports,
                       response, returned, pending>>

\* What ffmpeg can leave at output_with_audio, given the video it is to read:
\* the muxed video, a file it had to give up on, or nothing.
FfmpegOutcomes(video) ==
    IF video \in {"silent", "muxed"} THEN {"muxed", "empty", "nothing"} ELSE {"nothing"}

\* await process.communicate(): ffmpeg has run and left its output, or none
RunCommunicate(r) ==
    /\ tasks[r].pc = "communicate"
    /\ \E out \in FfmpegOutcomes(export_dir[OutputName(tasks[r].project_id)]) :
        export_dir' = IF out = "nothing" THEN export_dir
                      ELSE [export_dir EXCEPT ![AudioName(tasks[r].project_id)] = out]
    /\ tasks' = [tasks EXCEPT ![r].pc = "replace"]
    /\ UNCHANGED <<db, photos_dir, music_dir, preview_dir, uploads, exports,
                   response, returned, pending>>

\* if output_with_audio.exists(): output_file.unlink(); without the muxed
\* file the final check follows at once
RunReplace(r) ==
    LET project_id == tasks[r].project_id
        output_file == OutputName(project_id)
        output_with_audio == AudioName(project_id)
    IN  /\ ~Unlinked
        /\ tasks[r].pc = "replace"
        /\ IF export_dir[output_with_audio] = "absent"
           THEN Finish(r, export_dir, tasks[r].written, "no_output")
           ELSE IF export_dir[output_file] = "absent"
           THEN /\ tasks' = Raise(r, "unlink")
                /\ UNCHANGED <<db, export_dir>>
           ELSE /\ export_dir' = [export_dir EXCEPT ![output_file] = "absent"]
                /\ tasks' = [tasks EXCEPT ![r].pc = "rename"]
                /\ UNCHANGED db
        /\ UNCHANGED <<photos_dir, music_dir, preview_dir, uploads, exports,
                       response, returned, pending>>

\* output_with_audio.rename(output_file); then the final check
RunRename(r) ==
    LET project_id == tasks[r].project_id
        output_file == OutputName(project_id)
        output_with_audio == AudioName(project_id)
    IN  /\ tasks[r].pc = "rename"
        /\ Finish(r, [export_dir EXCEPT ![output_file] = export_dir[output_with_audio],
                                        ![output_with_audio] = "absent"],
                  tasks[r].written, "replaced")
        /\ UNCHANGED <<photos_dir, music_dir, preview_dir, uploads, exports,
                       response, returned, pending>>

\* except Exception: the first update_one
RunExcept(r) ==
    /\ ~Unlinked
    /\ tasks[r].pc = "except"
    /\ db' = [db EXCEPT ![tasks[r].project_id].export_status = "error"]
    /\ tasks' = [tasks EXCEPT ![r].pc = "except2"]
    /\ UNCHANGED <<photos_dir, music_dir, export_dir, preview_dir, uploads,
                   exports, response, returned, pending>>

\* except Exception: the second update_one
RunExcept2(r) ==
    /\ ~Unlinked
    /\ tasks[r].pc = "except2"
    /\ db' = [db EXCEPT ![tasks[r].project_id].export_status = "error"]
    /\ tasks' = [tasks EXCEPT ![r] = Done(@, "error")]
    /\ UNCHANGED <<photos_dir, music_dir, export_dir, preview_dir, uploads,
                   exports, response, returned, pending>>

RunStep(r) ==
    \/ RunStart(r)
    \/ RunMarkProcessing(r)
    \/ RunNoPhotos(r)
    \/ RunPhoto(r)
    \/ RunEncode(r)
    \/ RunCommunicate(r)
    \/ RunReplace(r)
    \/ RunRename(r)
    \/ RunExcept(r)
    \/ RunExcept2(r)

\* ---------------------------------------------------------------- next
PhotoIds == 1..MaxUploads
Files == {File(kind, 4, 3) : kind \in FileKinds}
FileLists == UNION {[1..n -> Files] : n \in 1..MaxUploads}

Upload(max_uploads) ==
    /\ ~Unlinked
    /\ \E project_id \in RequestIds, files \in FileLists :
          UploadPhotos(project_id, files) /\ uploads' <= max_uploads

Start(max_exports) ==
    /\ ~Unlinked
    /\ \E project_id \in RequestIds : StartExport(project_id) /\ exports' <= max_exports

Music ==
    /\ ~Unlinked
    /\ \E project_id \in RequestIds, ext \in {".mp3", ".wav"} :
          UploadMusic(project_id, ext, DefaultTempo)

Duration ==
    /\ ~Unlinked
    /\ \E project_id \in RequestIds, photo_id \in PhotoIds, duration \in Durations :
          UpdatePhotoDuration(project_id, photo_id, duration)

Delete ==
    /\ ~Unlinked
    /\ \E project_id \in RequestIds, photo_id \in PhotoIds : DeletePhoto(project_id, photo_id)

Download ==
    /\ ~Unlinked
    /\ \E project_id \in RequestIds : DownloadExport(project_id)

Task == \E r \in Runs : RunStep(r)

\* A call of get_resolution, as export_video makes with the stored settings
GetResolution ==
    /\ \E resolution \in Tiers, format \in Formats :
          returned' = [fn |-> "get_resolution", args |-> <<resolution, format>>,
                       value |-> get_resolution(resolution, format)]
    /\ UNCHANGED <<db, photos_dir, music_dir, export_dir, preview_dir, tasks,
                   uploads, exports, response, pending>>

\* The target sizes get_resolution gives
TargetSizes == {get_resolution(resolution, format) : resolution \in Tiers, format \in Formats}

\* The Ken Burns frames of one photo, as the photo loop makes them
Animate ==
    /\ \E target_size \in TargetSizes, photo_frames \in 0..MaxFrames :
          returned' = [fn |-> "ken_burns", args |-> <<target_size, photo_frames>>,
                       value |-> KenBurns(target_size, photo_frames)]
    /\ UNCHANGED <<db, photos_dir, music_dir, export_dir, preview_dir, tasks,
                   uploads, exports, response, pending>>

\* The sizes of the source images: the small ones, two common camera sizes
\* and two strips one pixel across
SourceSizes ==
    ((1..MaxSide) \X (1..MaxSide))
        \cup {<<1920, 1080>>, <<4000, 3000>>, <<2000, 1>>, <<1, 2000>>}

\* A call of create_frame_with_background, as the photo loop makes for a photo
Composite ==
    /\ \E img \in SourceSizes, target_size \in TargetSizes :
          returned' = [fn |-> "create_frame_with_background",
                       args |-> <<img, target_size>>,
                       value |-> create_frame_with_background(img, target_size)]
    /\ UNCHANGED <<db, photos_dir, music_dir, export_dir, preview_dir, tasks,
                   uploads, exports, response, pending>>

\* A call of get_orientation, as upload_photos makes with the image's size
GetOrientation ==
    /\ \E width \in 1..MaxSide, height \in 1..MaxSide :
          returned' = [fn |-> "get_orientation", args |-> <<width, height>>,
                       value |-> get_orientation(width, height)]
    /\ UNCHANGED <<db, photos_dir, music_dir, export_dir, preview_dir, tasks,
                   uploads, exports, response, pending>>

Next ==
    \/ CreateProject
    \/ Upload(MaxUploads)
    \/ Music
    \/ Duration
    \/ Delete
    \/ Download
    \/ Start(MaxExports)
    \/ Task

Spec == Init /\ [][Next]_vars

\* The behaviours of Spec in which a project of few photos is exported
\* concurrently, and those in which one of more photos is exported alone.
RaceNext ==
    \/ CreateProject
    \/ Upload(RaceUploads)
    \/ Music
    \/ Duration
    \/ Delete
    \/ Download
    \/ Start(MaxExports)
    \/ Task

SeqNext ==
    \/ CreateProject
    \/ Upload(MaxUploads)
    \/ Music
    \/ Duration
    \/ Delete
    \/ Download
    \/ Start(SeqExports)
    \/ Task

\* The editing of a project with no export, in two parts.  EditSpec: photos
\* of several shapes, and every handler that rewrites the photo list, with
\* the format changing.  SyncSpec: music of several tempos and the rhythm
\* multiplier changing, with photos of one shape.
EditFiles == {File("image", width, 10) : width \in EditWidths}

EditUpload ==
    \E project_id \in ProjectIds, file \in EditFiles :
        UploadPhotos(project_id, <<file>>) /\ uploads' <= MaxUploads

EditMusic ==
    \E project_id \in ProjectIds, tempo \in Tempos :
        UploadMusic(project_id, ".mp3", tempo)

Sync == \E project_id \in RequestIds : SyncPhotosToBeats(project_id)

Reorder ==
    \E project_id \in ProjectIds,
       photo_ids \in UNION {[1..n -> PhotoIds] : n \in 0..MaxUploads} :
        ReorderPhotos(project_id, photo_ids)

DurationAll ==
    \E project_id \in ProjectIds, duration \in EditDurations :
        UpdateAllPhotosDuration(project_id, duration)

EditDuration ==
    \E project_id \in ProjectIds, photo_id \in PhotoIds, duration \in EditDurations :
        UpdatePhotoDuration(project_id, photo_id, duration)

FormatSettings ==
    \E project_id \in RequestIds,
       update_data \in {<<>>} \cup {[format |-> f] : f \in EditFormats},
       readable \in SUBSET PhotoIds :
        UpdateSettings(project_id, update_data, readable)

RhythmSettings ==
    \E project_id \in ProjectIds,
       update_data \in {[global_rhythm_multiplier |-> m] : m \in Multipliers} :
        UpdateSettings(project_id, update_data, PhotoIds)

EditNext ==
    \/ CreateProject
    \/ EditUpload
    \/ Music
    \/ EditDuration
    \/ DurationAll
    \/ Reorder
    \/ Sync
    \/ FormatSettings

SyncNext ==
    \/ CreateProject
    \/ Upload(MaxUploads)
    \/ EditMusic
    \/ EditDuration
    \/ Delete
    \/ Sync
    \/ RhythmSettings

\* Uploads, deletions and changes of format.
PreviewNext ==
    \/ CreateProject
    \/ Upload(MaxUploads)
    \/ FormatSettings
    \/ Delete

\* Uploads, reorderings and changes of duration.
ReorderNext ==
    \/ CreateProject
    \/ EditUpload
    \/ EditDuration
    \/ Reorder

\* Uploads, deletions and changes of duration, with room for a photo that
\* arrives after two of three have gone.
OrderUpload ==
    \E project_id \in ProjectIds, files \in FileLists :
        UploadPhotos(project_id, files)

OrderDelete ==
    \E project_id \in ProjectIds, photo_id \in 1..MaxPhotos :
        DeletePhoto(project_id, photo_id)

OrderNext ==
    \/ CreateProject
    \/ OrderUpload
    \/ OrderDelete
    \/ Duration

\* The list-writing handlers await by await, among uploads and deletions.
SyncFind == \E project_id \in ProjectIds : FindSyncPhotosToBeats(project_id)

ReorderFind ==
    \E project_id \in ProjectIds,
       photo_ids \in UNION {[1..n -> PhotoIds] : n \in 0..MaxUploads} :
        FindReorderPhotos(project_id, photo_ids)

DurationAllFind ==
    \E project_id \in ProjectIds, duration \in EditDurations :
        FindUpdateAllPhotosDuration(project_id, duration)

SettingsFind ==
    \E project_id \in ProjectIds,
       update_data \in {[format |-> f] : f \in EditFormats} :
        FindUpdateSettings(project_id, update_data, PhotoIds)

InterleaveNext ==
    \/ CreateProject
    \/ Upload(MaxUploads)
    \/ Delete
    \/ Music
    \/ SyncFind
    \/ ReorderFind
    \/ DurationAllFind
    \/ SettingsFind
    \/ UpdateOnePhotos
    \/ UpdateOneSettings

EditSpec == Init /\ [][EditNext]_vars
InterleaveSpec == Init /\ [][InterleaveNext]_vars
OrderSpec == Init /\ [][OrderNext]_vars
ReorderSpec == Init /\ [][ReorderNext]_vars
PreviewSpec == Init /\ [][PreviewNext]_vars
SyncSpec == Init /\ [][SyncNext]_vars

\* The helper functions on their own, over all the arguments within bounds.
FnNext ==
    \/ GetResolution
    \/ GetOrientation
    \/ Animate
    \/ Composite

FnSpec == Init /\ [][FnNext]_vars

RaceSpec == Init /\ [][RaceNext]_vars
SeqSpec == Init /\ [][SeqNext]_vars

\* The event loop runs every task that is ready to run.
FairRaceSpec == RaceSpec /\ \A r \in Runs : WF_vars(RunStep(r))

\* ---------------------------------------------------------------- claims
Job(p) == db[p]
InFlightFor(p) == {r \in Runs : InFlight(r) /\ tasks[r].project_id = p}

\* C1: in every reachable state export_file is non-null if and only if
\* export_status is "completed", whatever start_export calls and export_video
\* tasks have run and however their steps interleave.
C1_FileIffCompleted ==
    \A p \in DOMAIN db :
        (Job(p).export_file # None) <=> (Job(p).export_status = "completed")

\* C2: a start_export call on an existing project leaves export_status
\* "processing", export_progress 0 and export_file null, whatever they were;
\* on a project id that does not exist it answers 404 and changes no state.
C2_StartExportResets ==
    [][\A project_id \in RequestIds :
          StartExport(project_id) =>
              IF project_id \in DOMAIN db
              THEN /\ db'[project_id].export_status = "processing"
                   /\ db'[project_id].export_progress = Zero
                   /\ db'[project_id].export_file = None
                   /\ response' = 200
              ELSE /\ response' = 404
                   /\ UNCHANGED <<db, photos_dir, music_dir, export_dir,
                                  preview_dir, tasks, uploads, exports,
                                  returned, pending>>]_vars

\* C2 witness: an earlier export has left its video and returned, a second
\* start_export has reset the job, and its own task has not run yet.
C2_Witness ==
    \E p \in DOMAIN db, r \in Runs :
        /\ exports = 2
        /\ tasks[r].pc = "start" /\ tasks[r].project_id = p
        /\ InFlightFor(p) = {r}
        /\ Job(p).export_status = "processing"
        /\ Job(p).export_progress = Zero
        /\ Job(p).export_file = None
        /\ Usable(OutputName(p))

\* C3: whenever export_status is "completed", export_progress is 100 and
\* export_file is the project's output name; no write of a task in flight
\* lowers the progress under a completed status.
C3_CompletedIsFull ==
    \A p \in DOMAIN db :
        Job(p).export_status = "completed" =>
            /\ Job(p).export_progress = Hundred
            /\ Job(p).export_file = OutputName(p)

\* C4: export_status moves only idle -> processing -> {completed, error}; a
\* terminal status changes only by a start_export call, which sets it to
\* "processing".
C4_StatusTransitions ==
    [][\A p \in DOMAIN db \cap DOMAIN db' :
          LET old == db[p].export_status
              new == db'[p].export_status
          IN  old # new =>
                \/ old = "idle" /\ new = "processing"
                \/ old = "processing" /\ new \in {"completed", "error"}
                \/ /\ old \in {"completed", "error"}
                   /\ new = "processing"
                   /\ exports' = exports + 1]_vars

\* C5: every export_video task terminates, also when a stage raises, and
\* once no task of a project is in flight its status is not "processing".
C5_RunsTerminate ==
    /\ \A r \in Runs : InFlight(r) ~> ~InFlight(r)
    /\ [](\A p \in DOMAIN db :
            InFlightFor(p) = {} => Job(p).export_status # "processing")

\* C5 witness: a task whose stage raised has returned, no task is in flight
\* and the status is "error".
C5_Witness ==
    \E p \in DOMAIN db, r \in Runs :
        /\ tasks[r].pc = "done" /\ tasks[r].project_id = p
        /\ tasks[r].e # None
        /\ InFlightFor(p) = {}
        /\ Job(p).export_status = "error"

\* C6: the task of a project with zero photos ends with export_status
\* "error" and export_file null, having produced no frame, run neither the
\* encoder nor the muxer, and raised no progress above 0.
C6_NoPhotosEndsInError ==
    [][\A r \in Runs :
          (tasks[r].pc = "no_photos" /\ tasks'[r].pc = "done") =>
              LET p == tasks[r].project_id
              IN  /\ db'[p].export_status = "error"
                  /\ db'[p].export_file = None
                  /\ db'[p].export_progress = db[p].export_progress
                  /\ tasks'[r].all_frames = <<>>
                  /\ tasks'[r].written = None
                  /\ tasks'[r].mux = None
                  /\ export_dir' = export_dir]_vars

\* C7: a task that produced zero frames, or whose encoder left an empty file
\* or none, ends with status "error", never "completed", also when an earlier
\* export left its output file behind.
C7_NoVideoEndsInError ==
    \A r \in Runs :
        (/\ tasks[r].pc = "done"
         /\ tasks[r].wrote # None
         /\ \/ FrameCount(tasks[r].all_frames) = 0
            \/ tasks[r].written = "empty")
        => tasks[r].wrote = "error"

\* C8: a photo whose image cannot be decoded is skipped; the decode error never
\* reaches the except clause that ends the task in "error".
C8_DecodeErrorIsSkipped ==
    \A r \in Runs : tasks[r].e # "decode"

\* C9: a photo whose file is missing when the loop reaches it adds no frames
\* and does not end the task: the step of a task in the loop renders the
\* first photo after photo_idx whose file exists, appending that photo's
\* frames after those already there, and with no such photo left the loop
\* ends with the frames it has; only a failure to render a photo that is
\* there can take the step to the except clause.
C9_MissingPhotoIsSkipped ==
    [][\A r \in Runs :
          (tasks[r].pc = "loop" /\ tasks'[r] # tasks[r]) =>
              LET t == tasks[r]
                  u == tasks'[r]
                  sorted == SortedByOrder(t.photos)
                  present == {i \in (t.photo_idx + 1)..Len(sorted) :
                                 sorted[i].filename \in photos_dir}
              IN  IF present = {}
                  THEN u.pc # "loop" /\ u.all_frames = t.all_frames
                  ELSE LET j == CHOOSE i \in present : \A k \in present : i <= k
                       IN  \/ u.pc = "except" /\ u.e \in {"decode", "memory"}
                           \/ /\ u.pc = "loop"
                              /\ u.photo_idx = j
                              /\ u.all_frames =
                                    Append(t.all_frames,
                                           <<sorted[j].id, PhotoFrames(sorted[j].duration)>>)]_vars

\* C9 witness: a task has ended "completed" with the frames of fewer photos
\* than the project had, the others having been passed over.
C9_Witness ==
    \E r \in Runs :
        /\ tasks[r].pc = "done"
        /\ tasks[r].wrote = "completed"
        /\ Len(tasks[r].all_frames) > 0
        /\ Len(tasks[r].all_frames) < tasks[r].total_photos
        /\ FrameCount(tasks[r].all_frames) > 0

\* C10: with a music track, when muxing fails (ffmpeg cannot be launched, it
\* leaves no output, or the audio file is missing) the silent video the encoder
\* wrote stays the output and the task ends "completed", never "error".
C10_MuxFailureKeepsSilentVideo ==
    \A r \in Runs :
        (/\ tasks[r].pc = "done"
         /\ tasks[r].written = "silent"
         /\ tasks[r].mux \in {"not_launched", "no_output", "no_audio_file"})
        => tasks[r].wrote = "completed"

\* C11: once the encoder of a task with music has written the silent video,
\* and until that task has written its terminal status, the file under the
\* output name is never absent: the muxed file takes its place in one step.
C11_OutputNeverAbsent ==
    \A r \in Runs :
        tasks[r].pc \in {"communicate", "replace", "rename"}
            => export_dir[OutputName(tasks[r].project_id)] # "absent"

\* C12: the block of frames a loop step appends for a photo of duration d
\* holds round(d * 30) frames, d * 30 being rounded to the nearest integer
\* (here d is in hundredths of a second, so d * 30 is in hundredths of a frame).
C12_FrameCountIsRounded ==
    [][\A r \in Runs :
          (/\ tasks[r].pc = "loop"
           /\ tasks'[r].pc = "loop"
           /\ Len(tasks'[r].all_frames) = Len(tasks[r].all_frames) + 1) =>
              LET block == tasks'[r].all_frames[Len(tasks'[r].all_frames)]
              IN  \A i \in 1..Len(tasks[r].photos) :
                      tasks[r].photos[i].id = block[1] =>
                          block[2] = (tasks[r].photos[i].duration * 30 + 50) \div 100]_vars

\* C13: when the loop is left for the encoder, the frame stream is one block
\* per photo whose file was there, each of round(d * 30) frames, the blocks in
\* ascending order (equal orders by position in the stored list); every photo
\* whose file exists has its block, so the encoder starts after the last one.
C13_FramesInPhotoOrder ==
    [][\A r \in Runs :
          (/\ tasks[r].pc = "loop"
           /\ tasks'[r].pc # "loop"
           /\ tasks'[r].e \notin {"decode", "memory"}) =>
              LET photos == tasks[r].photos
                  f == tasks[r].all_frames
                  pos(k) == CHOOSE i \in 1..Len(photos) : photos[i].id = f[k][1]
              IN  /\ \A k \in 1..Len(f) :
                        /\ \E i \in 1..Len(photos) : photos[i].id = f[k][1]
                        /\ f[k][2] = (photos[pos(k)].duration * 30 + 50) \div 100
                  /\ \A k \in 1..(Len(f) - 1) :
                        \/ photos[pos(k)].order < photos[pos(k + 1)].order
                        \/ /\ photos[pos(k)].order = photos[pos(k + 1)].order
                           /\ pos(k) < pos(k + 1)
                  /\ \A i \in 1..Len(photos) :
                        photos[i].filename \in photos_dir =>
                            \E k \in 1..Len(f) : f[k][1] = photos[i].id
                  /\ tasks'[r].all_frames = f]_vars

\* C14: download_export answers 200 only when the status is "completed" and
\* export_file names a file that exists; in every other state, a task being
\* at work or having ended in error included, it answers 404.
C14_DownloadOnlyCompleted ==
    \A project_id \in RequestIds :
        DownloadAnswer(project_id) = 200 =>
            /\ project_id \in DOMAIN db
            /\ Job(project_id).export_status = "completed"
            /\ Job(project_id).export_file # None
            /\ export_dir[Job(project_id).export_file] # "absent"

\* C15: start_export returns with the new task not yet begun and no other task
\* moved, and calling it twice is as calling it once: when the tasks that the
\* calls started have all returned, the job is in a state that a single call
\* can end in, which is "completed" with progress 100 and the output name, or
\* "error" with no export_file.
C15_StartExportIdempotent ==
    /\ [][\A project_id \in DOMAIN db :
              StartExport(project_id) =>
                  \E r \in Runs :
                      /\ ~InFlight(r)
                      /\ tasks'[r].pc = "start"
                      /\ \A q \in Runs \ {r} : tasks'[q] = tasks[q]
                      /\ export_dir' = export_dir]_vars
    /\ [](\A p \in DOMAIN db :
              (exports > 0 /\ InFlightFor(p) = {}) =>
                  \/ /\ Job(p).export_status = "completed"
                     /\ Job(p).export_progress = Hundred
                     /\ Job(p).export_file = OutputName(p)
                  \/ /\ Job(p).export_status = "error"
                     /\ Job(p).export_file = None)

\* C16: start_export is accepted while the status is "processing" and a task
\* is in flight for the project: it answers 200 and a second task is then in
\* flight beside the first, which is left as it was.
C16_SecondExportAccepted ==
    [][\A project_id \in DOMAIN db :
          (/\ StartExport(project_id)
           /\ Job(project_id).export_status = "processing"
           /\ InFlightFor(project_id) # {}) =>
              /\ response' = 200
              /\ \A r \in InFlightFor(project_id) : tasks'[r] = tasks[r]
              /\ \E q \in Runs \ InFlightFor(project_id) :
                    /\ tasks'[q].pc = "start"
                    /\ tasks'[q].project_id = project_id]_vars

\* C16 witness: two tasks of one project are in flight at once, both having
\* set the status and written the same output file, both awaiting ffmpeg.
C16_Witness ==
    \E r, q \in Runs :
        /\ r # q
        /\ tasks[r].project_id = tasks[q].project_id
        /\ tasks[r].pc = "communicate"
        /\ tasks[q].pc = "communicate"
        /\ OutputName(tasks[r].project_id) = OutputName(tasks[q].project_id)
        /\ export_dir[OutputName(tasks[r].project_id)] # "absent"
        /\ tasks[r].written # None
        /\ tasks[q].written # None

\* C17: get_resolution returns 1280x720, 720x1280, 1920x1080 and 1080x1920 for
\* the two known tiers with the two known formats, and 1920x1080 whenever the
\* tier or the format is not a known one.
C17_ResolutionTable ==
    returned.fn = "get_resolution" =>
        LET resolution == returned.args[1]
            format == returned.args[2]
        IN  returned.value =
                IF resolution = "720p" /\ format = "horizontal" THEN <<1280, 720>>
                ELSE IF resolution = "720p" /\ format = "vertical" THEN <<720, 1280>>
                ELSE IF resolution = "1080p" /\ format = "horizontal" THEN <<1920, 1080>>
                ELSE IF resolution = "1080p" /\ format = "vertical" THEN <<1080, 1920>>
                ELSE <<1920, 1080>>

\* C18: every stored photo is "landscape" when width/height > 1.1, "portrait"
\* when width/height < 0.9 and "square" otherwise, the ratios 0.9 and 1.1
\* themselves being square; and no handler changes the orientation, the width
\* or the height of a photo it keeps.
C18_OrientationStored ==
    /\ [](\A p \in DOMAIN db : \A i \in 1..Len(Job(p).photos) :
              LET photo == Job(p).photos[i]
                  tenths == 10 * photo.width   \* the ratio against height, in tenths
              IN  /\ photo.orientation = "landscape" <=> tenths > 11 * photo.height
                  /\ photo.orientation = "portrait" <=> tenths < 9 * photo.height
                  /\ photo.orientation = "square" <=>
                        (9 * photo.height <= tenths /\ tenths <= 11 * photo.height))
    /\ [][\A p \in DOMAIN db :
              \A i \in 1..Len(db[p].photos), j \in 1..Len(db'[p].photos) :
                  db[p].photos[i].id = db'[p].photos[j].id =>
                      /\ db'[p].photos[j].orientation = db[p].photos[i].orientation
                      /\ db'[p].photos[j].width = db[p].photos[i].width
                      /\ db'[p].photos[j].height = db[p].photos[i].height]_vars

\* C18 witness: photos of ratio exactly 0.9 and exactly 1.1 are stored as
\* square after a beat sync, a change of format and a reordering.
C18_Witness ==
    \E p \in DOMAIN db :
        /\ Len(Job(p).photos) = 2
        /\ \E i, j \in 1..2 :
            /\ Job(p).photos[i].width = 9 /\ Job(p).photos[i].height = 10
            /\ Job(p).photos[j].width = 11 /\ Job(p).photos[j].height = 10
            /\ Job(p).photos[i].orientation = "square"
            /\ Job(p).photos[j].orientation = "square"
            /\ Job(p).photos[i].id < Job(p).photos[j].id
            /\ Job(p).photos[i].order > Job(p).photos[j].order
        /\ \A i \in 1..2 :
            /\ Job(p).photos[i].duration = BeatInterval(DefaultTempo, DefaultMultiplier)
            /\ Job(p).photos[i].preview = PreviewName(Job(p).photos[i].id, "vertical")

\* C19: sync_photos_to_beats on a project with a music track and at least one
\* photo sets every photo's duration to 60 / tempo * global_rhythm_multiplier
\* (in hundredths of a second: 6000 * multiplier / tempo, the multiplier in
\* tenths) and changes no other field of any photo; with no music it answers
\* 400 and with no photos it reports synced = false, the project unchanged
\* in both cases.
C19_SyncSetsBeatInterval ==
    [][\A project_id \in DOMAIN db :
          SyncPhotosToBeats(project_id) =>
              LET project == db[project_id]
                  after == db'[project_id]
              IN  IF project.music = NoMusic THEN
                      response' = 400 /\ db' = db
                  ELSE IF Len(project.photos) = 0 THEN
                      /\ returned'.value = [synced |-> FALSE]
                      /\ db' = db
                  ELSE
                      /\ Len(after.photos) = Len(project.photos)
                      /\ \A i \in 1..Len(project.photos) :
                            \E j \in 1..Len(after.photos) :
                                /\ after.photos[j].duration * project.music.tempo * 10
                                     = 6000 * project.settings.global_rhythm_multiplier
                                /\ [after.photos[j] EXCEPT !.duration = 0]
                                     = [project.photos[i] EXCEPT !.duration = 0]]_vars

\* C20: after update_settings with a new format f, settings.format is f and
\* every photo references a preview generated for f (960x540 for horizontal,
\* 540x960 for vertical) that exists in the preview store, while its width,
\* height, orientation, duration and order are unchanged.
C20_PreviewsFollowFormat ==
    [][\A project_id \in DOMAIN db, f \in EditFormats :
          (\E readable \in SUBSET PhotoIds :
              UpdateSettings(project_id, [format |-> f], readable)) =>
              LET photos == db[project_id].photos
                  after == db'[project_id].photos
                  size == IF f = "vertical" THEN <<540, 960>> ELSE <<960, 540>>
              IN  /\ db'[project_id].settings.format = f
                  /\ Len(after) = Len(photos)
                  /\ \A i \in 1..Len(photos) :
                        /\ after[i].preview = PreviewName(photos[i].id, f)
                        /\ <<after[i].preview, size>> \in preview_dir'
                        /\ after[i].id = photos[i].id
                        /\ after[i].width = photos[i].width
                        /\ after[i].height = photos[i].height
                        /\ after[i].orientation = photos[i].orientation
                        /\ after[i].duration = photos[i].duration
                        /\ after[i].order = photos[i].order]_vars

\* C21: after delete_photo for a photo of the project, the photo is no longer
\* in the project's photo list and none of its artifacts remains in any
\* store: not the source photo file and not any preview generated for it,
\* previews for a format the project used before a format change included.
C21_DeleteRemovesArtifacts ==
    [][\A project_id \in DOMAIN db, photo_id \in PhotoIds :
          (/\ \E i \in 1..Len(db[project_id].photos) :
                  db[project_id].photos[i].id = photo_id
           /\ DeletePhoto(project_id, photo_id)) =>
              /\ \A i \in 1..Len(db'[project_id].photos) :
                    db'[project_id].photos[i].id # photo_id
              /\ photo_id \notin photos_dir'
              /\ \A f \in preview_dir', format \in Formats :
                    f[1] # PreviewName(photo_id, format)]_vars

\* C22: after the photo loop finishes a photo, the export_progress it writes
\* is (number of photos completed so far / total number of photos) * 80,
\* also when earlier photos in display order were skipped, and it never
\* exceeds 80.
C22_ProgressCountsCompleted ==
    [][\A r \in Runs :
          (/\ tasks[r].pc = "loop"
           /\ Len(tasks'[r].all_frames) = Len(tasks[r].all_frames) + 1) =>
              LET completed == Len(tasks'[r].all_frames)
                  written == db'[tasks[r].project_id].export_progress
              IN  /\ written = Frac(completed * 80, tasks[r].total_photos)
                  /\ ~FracLess(Frac(80, 1), written)]_vars

\* C23: for every target size of the layout table, every frame count >= 1
\* and every frame of the animation, the crop window lies inside the base
\* frame: 0 <= left <= width - new_width and 0 <= top <= height - new_height,
\* with new_width and new_height positive and at most the target size.
C23_CropWindowInsideFrame ==
    (returned.fn = "ken_burns" /\ returned.args[2] >= 1) =>
        \A i \in 1..Len(returned.value) :
            LET box == returned.value[i].box
                width == returned.args[1][1]
                height == returned.args[1][2]
                new_width == box[3] - box[1]
                new_height == box[4] - box[2]
            IN  /\ 0 <= box[1] /\ box[1] <= width - new_width
                /\ 0 <= box[2] /\ box[2] <= height - new_height
                /\ 0 < new_width /\ new_width <= width
                /\ 0 < new_height /\ new_height <= height

\* C23 witness: the last frame of an animation of two frames or more on a
\* 1920x1080 frame, its window zoomed in and moved off the corner.
C23_Witness ==
    /\ returned.fn = "ken_burns"
    /\ returned.args[1] = <<1920, 1080>>
    /\ returned.args[2] >= 2
    /\ LET box == returned.value[Len(returned.value)].box
       IN  /\ box[1] > 0 /\ box[2] > 0
           /\ box[3] - box[1] = 1828
           /\ box[4] - box[2] = 1028

\* C24: the animation of one photo has exactly frameCount frames, frame i
\* with progress i / max(frameCount - 1, 1): the single frame of frameCount
\* = 1 has progress 0, and for frameCount >= 2 the first frame has progress 0,
\* zoom 1.0 and the whole base frame as its window, the last frame progress 1
\* and zoom 1.05.
C24_AnimationProgress ==
    returned.fn = "ken_burns" =>
        LET frameCount == returned.args[2]
            frames == returned.value
            width == returned.args[1][1]
            height == returned.args[1][2]
        IN  /\ Len(frames) = frameCount
            /\ \A i \in 1..frameCount :
                  frames[i].progress[1] * (IF frameCount >= 2 THEN frameCount - 1 ELSE 1)
                      = (i - 1) * frames[i].progress[2]
            /\ frameCount = 1 => frames[1].progress = <<0, 1>>
            /\ frameCount >= 2 =>
                  /\ frames[1].progress = <<0, 1>>
                  /\ frames[1].zoom_factor = <<1, 1>>
                  /\ frames[1].box = <<0, 0, width, height>>
                  /\ frames[frameCount].progress = <<1, 1>>
                  /\ frames[frameCount].zoom_factor = <<21, 20>>

\* C24 witness: an animation of three frames, the middle one half way.
C24_Witness ==
    /\ returned.fn = "ken_burns"
    /\ returned.args[2] = 3
    /\ Len(returned.value) = 3
    /\ returned.value[2].progress = <<1, 2>>
    /\ returned.value[3].zoom_factor = <<21, 20>>


\* C25: for every source image size and target size, the background scale
\* covers the target (so the centre crop is exactly the target size), the
\* fitted foreground lies within the target with positive width and height,
\* one of them equal to the target's, and the paste offsets are non-negative
\* with the left/top margin at most 1 pixel smaller than the right/bottom one.
C25_CompositorGeometry ==
    returned.fn = "create_frame_with_background" =>
        LET target_size == returned.args[2]
            bg == returned.value.bg
            fitted == returned.value.fitted
            at == returned.value.at
            right == target_size[1] - fitted[1] - at[1]
            bottom == target_size[2] - fitted[2] - at[2]
        IN  /\ bg.size[1] >= target_size[1] /\ bg.size[2] >= target_size[2]
            /\ bg.box[1] >= 0 /\ bg.box[2] >= 0
            /\ bg.box[3] <= bg.size[1] /\ bg.box[4] <= bg.size[2]
            /\ 0 < fitted[1] /\ fitted[1] <= target_size[1]
            /\ 0 < fitted[2] /\ fitted[2] <= target_size[2]
            /\ fitted[1] = target_size[1] \/ fitted[2] = target_size[2]
            /\ at[1] >= 0 /\ at[2] >= 0
            /\ at[1] <= right /\ right <= at[1] + 1
            /\ at[2] <= bottom /\ bottom <= at[2] + 1

\* C26: between two consecutive start_export calls on a project, the
\* export_progress a polling client can read never decreases, whatever the
\* interleaving of the steps of the runs in flight: every step other than a
\* start_export call leaves it equal or greater.
C26_ProgressNeverDecreases ==
    [][\A p \in DOMAIN db \cap DOMAIN db' :
          exports' = exports =>
              ~FracLess(db'[p].export_progress, db[p].export_progress)]_vars

\* C29: after reorder_photos with a list that is a permutation of all the
\* project's photo ids, each photo's order is its index in the list (from 0)
\* and the stored sequence is the requested one; for any list, partial or
\* with unknown or repeated ids, the set of photos and every field other
\* than order are unchanged and the stored sequence is sorted by order.
C29_ReorderFollowsRequest ==
    [][\A project_id \in DOMAIN db,
         photo_ids \in UNION {[1..n -> PhotoIds] : n \in 0..MaxUploads} :
          ReorderPhotos(project_id, photo_ids) =>
              LET photos == db[project_id].photos
                  after == db'[project_id].photos
                  permutation ==
                      /\ Len(photo_ids) = Len(photos)
                      /\ {photo_ids[i] : i \in 1..Len(photo_ids)}
                            = {photos[i].id : i \in 1..Len(photos)}
              IN  /\ Len(after) = Len(photos)
                  /\ \A i \in 1..Len(photos) : \E j \in 1..Len(after) :
                        [after[j] EXCEPT !.order = 0] = [photos[i] EXCEPT !.order = 0]
                  /\ \A j \in 1..(Len(after) - 1) : after[j].order <= after[j + 1].order
                  /\ permutation =>
                        \A i \in 1..Len(photo_ids) :
                            /\ after[i].id = photo_ids[i]
                            /\ after[i].order = i - 1]_vars

\* C29 witness: two photos stored in the reverse of their upload order, as
\* a reorder request listed them.
C29_Witness ==
    \E p \in DOMAIN db :
        /\ Len(Job(p).photos) = 2
        /\ Job(p).photos[1].id = 2 /\ Job(p).photos[1].order = 0
        /\ Job(p).photos[2].id = 1 /\ Job(p).photos[2].order = 1

\* C28: after any sequence of upload_photos and delete_photo calls, with no
\* reorder, a photo uploaded later comes after every photo that was already
\* in the project in display order: sorted by order, as the export renders
\* them, the photos are in upload order (ids are given in upload order).
C28_DisplayOrderIsUploadOrder ==
    \A p \in DOMAIN db :
        LET shown == SortedByOrder(Job(p).photos)
        IN  \A i, j \in 1..Len(shown) : i < j => shown[i].id < shown[j].id

\* C27: the set of photo ids of a project changes only by upload_photos,
\* which adds, and delete_photo, which removes: under any interleaving of
\* the handlers, no step of sync_photos_to_beats, reorder_photos,
\* update_all_photos_duration or update_settings drops a photo uploaded
\* meanwhile or brings back a photo deleted meanwhile.
C27_OnlyUploadAndDeleteChangeIds ==
    [][\A p \in DOMAIN db \cap DOMAIN db' :
          LET before == {db[p].photos[i].id : i \in 1..Len(db[p].photos)}
              after == {db'[p].photos[i].id : i \in 1..Len(db'[p].photos)}
          IN  /\ after \ before # {} =>
                    \* an upload: it hands out the ids it adds
                    /\ uploads' = uploads + Cardinality(after \ before)
                    /\ before \subseteq after
                    /\ pending' = pending
              /\ before \ after # {} =>
                    \E photo_id \in before : DeletePhoto(p, photo_id)]_vars

============================================================================
